---- MODULE Spec2Model ----
(***************************************************************************)
(* Kafka (MSK) to SQS router: src/src/router.py.                           *)
(*                                                                         *)
(* One invocation of lambda_handler is modelled as a state machine: the    *)
(* main thread decodes the records, groups the messages by queue type,     *)
(* submits one send task per batch to a ThreadPoolExecutor, awaits every   *)
(* future with a timeout and leaves the executor (which joins the          *)
(* workers) before it returns the response.  Worker threads start and      *)
(* finish send_to_sqs_batch calls; a clock measures the sends and the      *)
(* waits.  The pure functions (determine_queue_type, parse_kafka_message)  *)
(* are operators, also exercised alone through the variable probe.         *)
(***************************************************************************)
EXTENDS Integers, Sequences, FiniteSets, TLC

VARIABLES
    event,             \* the MSK event handed to lambda_handler
    pc,                \* position of the main thread in lambda_handler
    parsed_messages,   \* lambda_handler: parsed_messages
    grouped_messages,  \* lambda_handler: grouped_messages
    futures,           \* send_batches_concurrently: futures, with each task's state
    awaiting,          \* index of the future whose result() the main thread is in
    awaitStart,        \* clock value at which that result() call began
    all_successful,    \* send_batches_concurrently: all_successful
    now,               \* the clock
    metrics,           \* observations emitted through RouterMetrics, by kind
    response,          \* what lambda_handler returned
    probe              \* a single call of a pure function: its argument and result

vars == <<event, pc, parsed_messages, grouped_messages, futures, awaiting,
          awaitStart, all_successful, now, metrics, response, probe>>

-----------------------------------------------------------------------------
(* Bounds of the model *)

\* largest application count drawn for a message that is classified alone
MaxCount == 202
\* largest number of records in the event of a full invocation
MaxRecords == 2

-----------------------------------------------------------------------------
(* Program constants *)

MAX_WORKERS == 10
BATCH_SIZE == 10
\* future.result(timeout=30)
RESULT_TIMEOUT == 30
\* thresholds of determine_queue_type
SMALL_LIMIT == 50
MEDIUM_LIMIT == 200

Categories == {"SMALL", "MEDIUM", "LARGE"}

\* QUEUE_MAPPINGS: queue type -> queue URL (from the environment)
QUEUE_MAPPINGS ==
    [c \in Categories |->
        CASE c = "SMALL"  -> "url-small"
          [] c = "MEDIUM" -> "url-medium"
          [] c = "LARGE"  -> "url-large"]

\* the order of grouped_messages.items(): insertion order of the dict literal
CategoryOrder == <<"SMALL", "MEDIUM", "LARGE">>

-----------------------------------------------------------------------------
(* JSON values, as json.loads produces them.  t is the Python type of the  *)
(* value; "absent" stands for a key the dict does not have.                *)

JAbsent == [t |-> "absent", i |-> 0, s |-> ""]
JNull == [t |-> "null", i |-> 0, s |-> ""]
JInt(n) == [t |-> "int", i |-> n, s |-> ""]
JStr(x) == [t |-> "str", i |-> 0, s |-> x]
\* a non-empty JSON array (a Python list: truthy, unhashable, unordered with int)
JArr == [t |-> "arr", i |-> 0, s |-> ""]

\* Python truthiness of dict.get(key): None for an absent key
Truthy(v) ==
    CASE v.t = "absent" -> FALSE
      [] v.t = "null"   -> FALSE
      [] v.t = "int"    -> v.i # 0
      [] v.t = "str"    -> v.s # ""
      [] v.t = "arr"    -> TRUE

\* a decoded JSON object, restricted to the keys the router reads
Msg(qt, ac, na, pid) ==
    [queueType |-> qt, applicationCount |-> ac,
     NumberOfApplications |-> na, productId |-> pid]

EmptyMsg == Msg(JAbsent, JAbsent, JAbsent, JAbsent)

\* dict.get(key, default)
Get(v, default) == IF v.t = "absent" THEN default ELSE v

-----------------------------------------------------------------------------
(* determine_queue_type: the queue type, or "TypeError" when it raises     *)

Threshold(n) ==
    IF n <= SMALL_LIMIT THEN "SMALL"
    ELSE IF n <= MEDIUM_LIMIT THEN "MEDIUM"
    ELSE "LARGE"

\* mutant: the thresholds applied before the queueType pass-through
ThresholdFirst(message) ==
    LET app_count == Get(message.applicationCount,
                         Get(message.NumberOfApplications, JInt(0)))
    IN  IF app_count.t = "int" THEN Threshold(app_count.i)
        ELSE IF message.queueType.t = "str" /\ message.queueType.s \in Categories
             THEN message.queueType.s
        ELSE "TypeError"

\* mutant: a queueType that is set is returned without looking it up
PassThroughUnchecked(message) ==
    LET app_count == Get(message.applicationCount,
                         Get(message.NumberOfApplications, JInt(0)))
    IN  IF Truthy(message.queueType) /\ message.queueType.t = "str"
            THEN message.queueType.s
        ELSE IF app_count.t # "int" THEN "TypeError"
        ELSE Threshold(app_count.i)

determine_queue_type(message) ==
    LET queue_type == message.queueType
        app_count == Get(message.applicationCount,
                         Get(message.NumberOfApplications, JInt(0)))
    IN  IF Truthy(queue_type) /\ queue_type.t = "arr"
            \* `queue_type in QUEUE_MAPPINGS` hashes the value: a list is unhashable
            THEN "TypeError"
        ELSE IF Truthy(queue_type) /\ queue_type.t = "str"
                /\ queue_type.s \in DOMAIN QUEUE_MAPPINGS
            THEN queue_type.s
        ELSE IF app_count.t # "int"
            \* `app_count <= 50` with a str, None or list operand
            THEN "TypeError"
        ELSE Threshold(app_count.i)

-----------------------------------------------------------------------------
(* Record values.  A value is written as what its decoding stages make of  *)
(* it: base64 text (with or without correct padding, with or without       *)
(* characters outside the base64 alphabet) of bytes (UTF-8 or not) of text *)
(* (JSON or not) of a JSON document.                                       *)

\* json.loads results: a dict, a non-empty list, or None (JSON null)
ObjectDoc(m) == [form |-> "object", obj |-> m]
ArrayDoc == [form |-> "array", obj |-> EmptyMsg]
NoneDoc == [form |-> "None", obj |-> EmptyMsg]

Text(isJson, doc) == [json |-> isJson, doc |-> doc]
Bytes(isUtf8, text) == [utf8 |-> isUtf8, text |-> text]
\* kind: "absent" (no 'value' key), "empty" ('') or "str"
Value(kind, padding, alphabet, bytes) ==
    [kind |-> kind, padding |-> padding, alphabet |-> alphabet, bytes |-> bytes]

Encode(doc) == Value("str", TRUE, TRUE, Bytes(TRUE, Text(TRUE, doc)))
AbsentValue == Value("absent", TRUE, TRUE, Bytes(TRUE, Text(FALSE, NoneDoc)))
EmptyValue == Value("empty", TRUE, TRUE, Bytes(TRUE, Text(FALSE, NoneDoc)))

Ok(v) == [ok |-> TRUE, v |-> v]
\* a raised exception
Raise(e) == [ok |-> FALSE, v |-> e]

\* base64.b64decode(s) with validate=False: characters outside the alphabet
\* are discarded, incorrect padding of the rest raises binascii.Error
b64decode(value) ==
    IF ~value.padding THEN Raise("binascii.Error") ELSE Ok(value.bytes)

\* bytes.decode('utf-8')
utf8_decode(bytes) ==
    IF ~bytes.utf8 THEN Raise("UnicodeDecodeError") ELSE Ok(bytes.text)

\* json.loads(s)
json_loads(text) ==
    IF ~text.json THEN Raise("JSONDecodeError") ELSE Ok(text.doc)

\* Python truthiness of a decoded document
TruthyDoc(doc) ==
    CASE doc.form = "None"   -> FALSE
      [] doc.form = "array"  -> TRUE
      [] doc.form = "object" -> doc.obj # EmptyMsg

\* what parse_kafka_message returns, and the parse_error observations it made
Parsed(doc, errors) == [message |-> doc, errors |-> errors]

parse_kafka_message(record) ==
    LET encoded_value == record.value
        decoded_bytes == b64decode(encoded_value)
        message_str == IF decoded_bytes.ok THEN utf8_decode(decoded_bytes.v)
                       ELSE decoded_bytes
        message_data == IF message_str.ok THEN json_loads(message_str.v)
                        ELSE message_str
    IN  IF encoded_value.kind # "str"
            \* `if not encoded_value`: a warning is logged, nothing is recorded
            THEN Parsed(NoneDoc, 0)
        ELSE IF message_data.ok THEN Parsed(message_data.v, 0)
        \* except Exception: RouterMetrics.record_routing_error("parse_error")
        ELSE Parsed(NoneDoc, 1)

Record(value) == [value |-> value]

-----------------------------------------------------------------------------
(* Observations (RouterMetrics): how many of each kind were emitted        *)

MetricKinds ==
    {"MessagesProcessed", "BatchSize", "parse_error", "sqs_batch_failure",
     "sqs_send_error", "concurrent_send_error", "undetermined_queue_type",
     "handler_error"}

NoMetrics == [k \in MetricKinds |-> 0]

Observe(m, kind, n) == [m EXCEPT ![kind] = @ + n]

-----------------------------------------------------------------------------
(* lambda_handler, decode phase: the loop over the partitions' records     *)

RECURSIVE Flatten(_)
Flatten(partitions) ==
    IF partitions = <<>> THEN <<>>
    ELSE Head(partitions) \o Flatten(Tail(partitions))

\* lambda_handler line 285: `if parsed_message:`
KeepParsed(doc) == TruthyDoc(doc)

\* lines 283-286: one record of the loop
ParseStep(acc, record) ==
    LET p == parse_kafka_message(record)
    IN  [messages |-> IF KeepParsed(p.message) THEN Append(acc.messages, p.message)
                      ELSE acc.messages,
         errors |-> acc.errors + p.errors]

\* lines 283-286: the loop over records[lo..hi], from left to right.  It is
\* evaluated by halves, the first half before the second (TLC evaluates
\* `left` at `left = left`), which keeps the evaluation shallow.
RECURSIVE ParseLoop(_, _, _, _)
ParseLoop(acc, records, lo, hi) ==
    IF lo > hi THEN acc
    ELSE IF lo = hi THEN ParseStep(acc, records[lo])
    ELSE LET mid == (lo + hi) \div 2
             left == ParseLoop(acc, records, lo, mid)
         IN  IF left = left THEN ParseLoop(left, records, mid + 1, hi) ELSE acc

\* the parsed messages of a sequence of records and the parse errors observed
ParseAll(records) ==
    ParseLoop([messages |-> <<>>, errors |-> 0], records, 1, Len(records))

-----------------------------------------------------------------------------
(* route_messages_by_queue_type                                            *)

EmptyGroups == [c \in Categories |-> <<>>]

\* the state of the grouping loop: the groups so far, the messages seen so
\* far (with queueType written back), the observations, and the exception
\* that ended the loop ("" for none)
GroupState(groups, seen, processed, undetermined, raised) ==
    [groups |-> groups, seen |-> seen, processed |-> processed,
     undetermined |-> undetermined, raised |-> raised]

\* mutant: the loop does not write the queue type back into the message
GroupStepNoWriteBack(g, doc) ==
    IF g.raised # "" THEN [g EXCEPT !.seen = Append(@, doc)]
    ELSE IF doc.form # "object"
        THEN [g EXCEPT !.raised = "AttributeError", !.seen = Append(@, doc)]
    ELSE LET queue_type == determine_queue_type(doc.obj)
         IN  IF queue_type = "TypeError"
                 THEN [g EXCEPT !.raised = "TypeError", !.seen = Append(@, doc)]
             ELSE IF queue_type \in DOMAIN g.groups
                 THEN [g EXCEPT !.groups[queue_type] = Append(@, doc.obj),
                                !.seen = Append(@, doc),
                                !.processed = @ + 1]
             ELSE [g EXCEPT !.undetermined = @ + 1, !.seen = Append(@, doc)]

\* one iteration of the loop body, for message `doc`
GroupStep(g, doc) ==
    IF g.raised # "" THEN [g EXCEPT !.seen = Append(@, doc)]
    ELSE IF doc.form # "object"
        \* message.get on a list
        THEN [g EXCEPT !.raised = "AttributeError", !.seen = Append(@, doc)]
    ELSE LET queue_type == determine_queue_type(doc.obj)
             tagged == ObjectDoc([doc.obj EXCEPT !.queueType = JStr(queue_type)])
         IN  IF queue_type = "TypeError"
                 THEN [g EXCEPT !.raised = "TypeError", !.seen = Append(@, doc)]
             ELSE IF queue_type \in DOMAIN g.groups
                 THEN [g EXCEPT !.groups[queue_type] = Append(@, tagged.obj),
                                !.seen = Append(@, tagged),
                                !.processed = @ + 1]
             ELSE [g EXCEPT !.undetermined = @ + 1, !.seen = Append(@, doc)]

\* lines 191-200: the loop over messages[lo..hi], from left to right,
\* evaluated by halves like ParseLoop
RECURSIVE GroupLoop(_, _, _, _)
GroupLoop(g, messages, lo, hi) ==
    IF lo > hi THEN g
    ELSE IF lo = hi THEN GroupStep(g, messages[lo])
    ELSE LET mid == (lo + hi) \div 2
             left == GroupLoop(g, messages, lo, mid)
         IN  IF left = left THEN GroupLoop(left, messages, mid + 1, hi) ELSE g

route_messages_by_queue_type(messages) ==
    GroupLoop(GroupState(EmptyGroups, <<>>, 0, 0, ""), messages, 1, Len(messages))

-----------------------------------------------------------------------------
(* send_batches_concurrently: the batches, in submission order             *)

\* mutant: the slice runs one element too far
SliceInclusive(messages, i) ==
    SubSeq(messages, i + 1,
           IF i + BATCH_SIZE + 1 < Len(messages) THEN i + BATCH_SIZE + 1
           ELSE Len(messages))

\* messages[i:i + BATCH_SIZE], i counted from 0
Slice(messages, i) ==
    SubSeq(messages, i + 1,
           IF i + BATCH_SIZE < Len(messages) THEN i + BATCH_SIZE ELSE Len(messages))

\* mutant: the range stops before a last, shorter batch
ChunksFullOnly(messages, i) ==
    [k \in 1..((Len(messages) - i) \div BATCH_SIZE) |->
        Slice(messages, i + (k - 1) * BATCH_SIZE)]

\* for i in range(0, len(messages), BATCH_SIZE)
RECURSIVE Chunks(_, _)
Chunks(messages, i) ==
    IF i >= Len(messages) THEN <<>>
    ELSE <<Slice(messages, i)>> \o Chunks(messages, i + BATCH_SIZE)

Submission(queue_type, batch) ==
    [queue_type |-> queue_type, batch |-> batch,
     queue_url |-> QUEUE_MAPPINGS[queue_type]]

RECURSIVE Tag(_, _)
Tag(queue_type, batches) ==
    IF batches = <<>> THEN <<>>
    ELSE <<Submission(queue_type, Head(batches))>> \o Tag(queue_type, Tail(batches))

\* the (batch, queue_url) pairs the submission loop passes to executor.submit
RECURSIVE Submissions(_, _)
Submissions(grouped, k) ==
    IF k > Len(CategoryOrder) THEN <<>>
    ELSE Tag(CategoryOrder[k], Chunks(grouped[CategoryOrder[k]], 0))
             \o Submissions(grouped, k + 1)

-----------------------------------------------------------------------------
(* send_to_sqs_batch: the entries of one send_message_batch call           *)

\* str(x) of a decoded JSON value
PyStr(v) ==
    CASE v.t = "int"  -> ToString(v.i)
      [] v.t = "str"  -> v.s
      [] v.t = "null" -> "None"
      [] v.t = "arr"  -> "[...]"

Entry(i, message) ==
    [Id |-> ToString(i),
     MessageBody |-> Text(TRUE, ObjectDoc(message)),
     queueType |-> Get(message.queueType, JStr("UNKNOWN")).s,
     productId |-> PyStr(Get(message.productId, JStr("unknown")))]

Entries(messages) == [i \in 1..Len(messages) |-> Entry(i - 1, messages[i])]

-----------------------------------------------------------------------------
(* The destination (sqs_client.send_message_batch): what one call does.    *)
(* resp: "ok" (no Failed entries), "failed" (Failed entries) or "raise";   *)
(* dur: how long the call takes; hangs: the call never completes.          *)

\* durations of a send (clock units): one below the result timeout, one above
FastSend == 20
SlowSend == 45

Responses == {"ok", "failed", "raise"}

Behaviour(resp, dur, hangs) == [resp |-> resp, dur |-> dur, hangs |-> hangs]

SqsBehaviours ==
    {Behaviour(r, d, FALSE) : r \in Responses, d \in {FastSend, SlowSend}}
        \cup {Behaviour("ok", 0, TRUE)}

\* the destination of the runs with more batches than workers
PoolBehaviours == {Behaviour("ok", SlowSend, FALSE)}

-----------------------------------------------------------------------------
(* A future and the task behind it.                                        *)
(* st: "queued" (in the executor's work queue), "running" (a worker is in  *)
(* send_to_sqs_batch) or "finished"; result: what send_to_sqs_batch        *)
(* returned; awaited: what the main thread's result() call gave: "" (not   *)
(* yet), "True", "False" or "timeout".                                     *)

Future(sub) ==
    [queue_type |-> sub.queue_type, batch |-> sub.batch,
     queue_url |-> sub.queue_url, batch_size |-> Len(sub.batch),
     st |-> "queued", startAt |-> 0, behaviour |-> Behaviour("ok", 0, FALSE),
     entries |-> <<>>, sends |-> 0, result |-> FALSE, awaited |-> ""]

Running == {i \in 1..Len(futures) : futures[i].st = "running"}
Queued == {i \in 1..Len(futures) : futures[i].st = "queued"}
Finished == {i \in 1..Len(futures) : futures[i].st = "finished"}

Min(S) == CHOOSE x \in S : \A y \in S : x <= y

FinishTime(i) == futures[i].startAt + futures[i].behaviour.dur

-----------------------------------------------------------------------------
(* The responses of lambda_handler                                         *)

NotReturned == [returned |-> FALSE]

\* line 295
EmptyResponse == [statusCode |-> 200, processedMessages |-> 0]

\* lines 309-317
RoutingResponse(success, parsed, grouped) ==
    [statusCode |-> IF success THEN 200 ELSE 500,
     processedMessages |-> Len(parsed),
     queueDistribution |-> [small |-> Len(grouped["SMALL"]),
                            medium |-> Len(grouped["MEDIUM"]),
                            large |-> Len(grouped["LARGE"])]]

\* lines 325-328
FaultResponse(e) == [statusCode |-> 500, error |-> e]

\* mutant: the loop keeps the outcome of the last future only
AggregateLast(flag, success) == success

\* lines 236-237: `if not success: all_successful = False`
Aggregate(flag, success) == flag /\ success

\* mutant: a worker thread for every submitted task
WorkerFreeUnbounded == TRUE

\* ThreadPoolExecutor(max_workers=MAX_WORKERS): a queued task starts only
\* when fewer than MAX_WORKERS tasks are running
WorkerFree == Cardinality(Running) < MAX_WORKERS

-----------------------------------------------------------------------------
(* Inputs                                                                  *)

Message25 == Msg(JAbsent, JInt(25), JAbsent, JAbsent)
Message75 == Msg(JAbsent, JInt(75), JAbsent, JInt(123))
MessageLarge150 == Msg(JStr("LARGE"), JInt(150), JAbsent, JAbsent)
MessageBadCount == Msg(JAbsent, JStr("abc"), JAbsent, JInt(7))
\* a queueType that is no key of QUEUE_MAPPINGS
MessageUnknownType == Msg(JStr("XL"), JInt(75), JAbsent, JAbsent)
InvalidJson == Value("str", TRUE, TRUE, Bytes(TRUE, Text(FALSE, NoneDoc)))

\* the records an event of a full invocation is made of
EventRecords ==
    {Record(EmptyValue), Record(InvalidJson), Record(Encode(ObjectDoc(EmptyMsg))),
     Record(Encode(ObjectDoc(Message25))), Record(Encode(ObjectDoc(Message75))),
     Record(Encode(ObjectDoc(MessageLarge150))),
     Record(Encode(ObjectDoc(MessageBadCount))),
     Record(Encode(ObjectDoc(MessageUnknownType))), Record(Encode(ArrayDoc))}

RecordSeqs == UNION {[1..n -> EventRecords] : n \in 0..MaxRecords}

\* event: a dict whose 'records' maps partitions to record lists, or None
Event(valid, partitions) == [valid |-> valid, partitions |-> partitions]

Events ==
    {Event(FALSE, <<>>), Event(TRUE, <<>>)}
        \cup UNION {{Event(TRUE, <<SubSeq(r, 1, k), SubSeq(r, k + 1, Len(r))>>) :
                         k \in 0..Len(r)} : r \in RecordSeqs}

-----------------------------------------------------------------------------
(* Initial state: lambda_handler is about to be called with `event`        *)

Idle ==
    /\ parsed_messages = <<>>
    /\ grouped_messages = EmptyGroups
    /\ futures = <<>>
    /\ awaiting = 0
    /\ awaitStart = 0
    /\ all_successful = TRUE
    /\ now = 0
    /\ metrics = NoMetrics
    /\ response = NotReturned

NoProbe == [fn |-> "", arg |-> <<>>, done |-> TRUE, out |-> <<>>]

Init ==
    /\ event \in Events
    /\ pc = "start"
    /\ probe = NoProbe
    /\ Idle

-----------------------------------------------------------------------------
(* lambda_handler                                                          *)

\* mutant: no except clause, the exception leaves lambda_handler
HandlerFaultUnhandled(observed, e) ==
    /\ metrics' = observed
    /\ response' = NotReturned
    /\ pc' = "crashed"

\* the except clause of lambda_handler (lines 322-328), entered with the
\* observations made so far
HandlerFault(observed, e) ==
    /\ metrics' = Observe(observed, "handler_error", 1)
    /\ response' = FaultResponse(e)
    /\ pc' = "done"

\* lines 266-291: the decode phase.  event.get raises on a None event.
ParseRecords ==
    /\ pc = "start"
    /\ IF ~event.valid
         THEN /\ HandlerFault(metrics, "AttributeError")
              /\ UNCHANGED parsed_messages
         ELSE LET p == ParseAll(Flatten(event.partitions))
              IN  /\ parsed_messages' = p.messages
                  /\ metrics' = Observe(metrics, "parse_error", p.errors)
                  /\ pc' = "parsed"
                  /\ UNCHANGED response
    /\ UNCHANGED <<event, grouped_messages, futures, awaiting, awaitStart,
                   all_successful, now, probe>>

\* lines 293-295: no parsed message
ReturnEmpty ==
    /\ pc = "parsed"
    /\ parsed_messages = <<>>
    /\ response' = EmptyResponse
    /\ pc' = "done"
    /\ UNCHANGED <<event, parsed_messages, grouped_messages, futures, awaiting,
                   awaitStart, all_successful, now, metrics, probe>>

\* lines 297-304: group the messages; an exception of the loop reaches the
\* except clause of lambda_handler
GroupMessages ==
    /\ pc = "parsed"
    /\ parsed_messages # <<>>
    /\ LET g == route_messages_by_queue_type(parsed_messages)
           observed == Observe(Observe(metrics, "MessagesProcessed", g.processed),
                               "undetermined_queue_type", g.undetermined)
       IN  \* the loop writes queueType into the dicts parsed_messages holds
           /\ parsed_messages' = g.seen
           /\ IF g.raised # ""
                THEN /\ HandlerFault(observed, g.raised)
                     /\ UNCHANGED <<grouped_messages, awaiting>>
                ELSE /\ metrics' = observed
                     /\ grouped_messages' = g.groups
                     /\ pc' = IF Submissions(g.groups, 1) = <<>>
                                THEN "await" ELSE "submit"
                     /\ awaiting' = 1
                     /\ UNCHANGED response
    /\ UNCHANGED <<event, futures, awaitStart, all_successful, now, probe>>

-----------------------------------------------------------------------------
(* send_batches_concurrently                                               *)

\* lines 220-230: executor.submit of the next batch; after the last one the
\* main thread enters the result() call of the first future
SubmitBatch ==
    /\ pc = "submit"
    /\ LET subs == Submissions(grouped_messages, 1)
           k == Len(futures) + 1
       IN  /\ k <= Len(subs)
           /\ futures' = Append(futures, Future(subs[k]))
           /\ IF k = Len(subs)
                THEN pc' = "await" /\ awaitStart' = now
                ELSE UNCHANGED <<pc, awaitStart>>
    /\ UNCHANGED <<event, parsed_messages, grouped_messages, awaiting,
                   all_successful, now, metrics, response, probe>>

\* a worker thread takes the oldest queued task and calls send_to_sqs_batch,
\* which builds the entries and calls send_message_batch (lines 129-152)
WorkerStart(behaviours) ==
    /\ Queued # {}
    /\ WorkerFree
    /\ LET i == Min(Queued)
       IN  \E b \in behaviours :
               futures' = [futures EXCEPT ![i] =
                   [@ EXCEPT !.st = "running", !.startAt = now, !.behaviour = b,
                             !.entries = Entries(futures[i].batch), !.sends = @ + 1]]
    /\ UNCHANGED <<event, pc, parsed_messages, grouped_messages, awaiting,
                   awaitStart, all_successful, now, metrics, response, probe>>

\* mutant: a batch whose send did not succeed is put back in the work queue
\* once
WorkerFinishRetry ==
    \E i \in Running :
        /\ ~futures[i].behaviour.hangs
        /\ FinishTime(i) = now
        /\ LET resp == futures[i].behaviour.resp
           IN  /\ futures' = [futures EXCEPT ![i] =
                      [@ EXCEPT !.st = IF resp # "ok" /\ futures[i].sends < 2
                                         THEN "queued" ELSE "finished",
                                !.result = (resp = "ok")]]
               /\ metrics' =
                      CASE resp = "ok"     -> metrics
                        [] resp = "failed" -> Observe(metrics, "sqs_batch_failure", 1)
                        [] resp = "raise"  -> Observe(metrics, "sqs_send_error", 1)
        /\ UNCHANGED <<event, pc, parsed_messages, grouped_messages, awaiting,
                       awaitStart, all_successful, now, response, probe>>

\* send_message_batch completes and send_to_sqs_batch returns (lines 154-176)
WorkerFinish ==
    \E i \in Running :
        /\ ~futures[i].behaviour.hangs
        /\ FinishTime(i) = now
        /\ LET resp == futures[i].behaviour.resp
           IN  /\ futures' = [futures EXCEPT ![i] =
                      [@ EXCEPT !.st = "finished", !.result = (resp = "ok")]]
               /\ metrics' =
                      CASE resp = "ok"     -> metrics
                        [] resp = "failed" -> Observe(metrics, "sqs_batch_failure", 1)
                        [] resp = "raise"  -> Observe(metrics, "sqs_send_error", 1)
        /\ UNCHANGED <<event, pc, parsed_messages, grouped_messages, awaiting,
                       awaitStart, all_successful, now, response, probe>>

\* line 235: is the main thread inside future.result(timeout=30)?
InResult == pc = "await" /\ awaiting <= Len(futures)

Deadline == awaitStart + RESULT_TIMEOUT

\* lines 235-239: result() returns what the task returned
AwaitResult ==
    /\ InResult
    /\ futures[awaiting].st = "finished"
    /\ now <= Deadline
    /\ LET success == futures[awaiting].result
       IN  /\ all_successful' = Aggregate(all_successful, success)
           /\ metrics' = IF success
                           THEN Observe(metrics, "BatchSize", 1)
                           ELSE metrics
           /\ futures' = [futures EXCEPT ![awaiting].awaited =
                                 IF success THEN "True" ELSE "False"]
    /\ awaiting' = awaiting + 1
    /\ awaitStart' = now
    /\ UNCHANGED <<event, pc, parsed_messages, grouped_messages, now, response,
                   probe>>

\* lines 240-247: result() raises TimeoutError after RESULT_TIMEOUT of waiting
AwaitTimeout ==
    /\ InResult
    /\ futures[awaiting].st # "finished"
    /\ now >= Deadline
    /\ all_successful' = FALSE
    /\ metrics' = Observe(metrics, "concurrent_send_error", 1)
    /\ futures' = [futures EXCEPT ![awaiting].awaited = "timeout"]
    /\ awaiting' = awaiting + 1
    /\ awaitStart' = now
    /\ UNCHANGED <<event, pc, parsed_messages, grouped_messages, now, response,
                   probe>>

\* mutant: the waiting loop is left at the first task that did not succeed
ReturnResponseEarly ==
    /\ pc = "await"
    /\ awaiting > Len(futures) \/ ~all_successful
    /\ response' = RoutingResponse(all_successful, parsed_messages, grouped_messages)
    /\ pc' = "done"
    /\ UNCHANGED <<event, parsed_messages, grouped_messages, futures, awaiting,
                   awaitStart, all_successful, now, metrics, probe>>

\* lines 217, 249 and 309-320: leaving the `with` block shuts the executor
\* down with wait=True, i.e. joins every worker; then the response is built
ReturnResponse ==
    /\ pc = "await"
    /\ awaiting > Len(futures)
    /\ Finished = 1..Len(futures)
    /\ response' = RoutingResponse(all_successful, parsed_messages, grouped_messages)
    /\ pc' = "done"
    /\ UNCHANGED <<event, parsed_messages, grouped_messages, futures, awaiting,
                   awaitStart, all_successful, now, metrics, probe>>

-----------------------------------------------------------------------------
(* Time.  Steps of the threads take no time; the clock advances, to the    *)
(* next completion of a send or expiry of the wait, only when every thread *)
(* is blocked.                                                             *)

MainBlocked ==
    \/ InResult /\ futures[awaiting].st # "finished" /\ now < Deadline
    \/ pc = "await" /\ awaiting > Len(futures) /\ Finished # 1..Len(futures)

WorkersBlocked ==
    /\ ~(Queued # {} /\ WorkerFree)
    /\ \A i \in Running : futures[i].behaviour.hangs \/ FinishTime(i) > now

NextTimes ==
    {FinishTime(i) : i \in {j \in Running : ~futures[j].behaviour.hangs}}
        \cup (IF InResult THEN {Deadline} ELSE {})

Tick ==
    /\ MainBlocked
    /\ WorkersBlocked
    /\ NextTimes # {}
    /\ now' = Min(NextTimes)
    /\ UNCHANGED <<event, pc, parsed_messages, grouped_messages, futures, awaiting,
                   awaitStart, all_successful, metrics, response, probe>>

Next ==
    \/ ParseRecords
    \/ ReturnEmpty
    \/ GroupMessages
    \/ SubmitBatch
    \/ WorkerStart(SqsBehaviours)
    \/ WorkerFinish
    \/ AwaitResult
    \/ AwaitTimeout
    \/ ReturnResponse
    \/ Tick

Spec == Init /\ [][Next]_vars

\* the same invocation with progress: a thread that can take a step takes
\* it, and the clock advances when every thread waits
SpecLive == Init /\ [][Next]_vars /\ WF_vars(Next)

-----------------------------------------------------------------------------
(* More batches than workers: an event of PoolSize records of the SMALL    *)
(* tier, followed by none, one or two records of the other tiers           *)

PoolSize == 101

Repeat(x, n) == [i \in 1..n |-> x]

PoolEvents ==
    {Event(TRUE, <<Repeat(Record(Encode(ObjectDoc(Message25))), PoolSize), tail>>) :
        tail \in {<<>>,
                  <<Record(Encode(ObjectDoc(Message75)))>>,
                  <<Record(Encode(ObjectDoc(Message75))),
                    Record(Encode(ObjectDoc(MessageLarge150)))>>}}

InitPool ==
    /\ event \in PoolEvents
    /\ pc = "start"
    /\ probe = NoProbe
    /\ Idle

NextPool ==
    \/ ParseRecords
    \/ GroupMessages
    \/ SubmitBatch
    \/ WorkerStart(PoolBehaviours)
    \/ WorkerFinish
    \/ AwaitResult
    \/ AwaitTimeout
    \/ ReturnResponse
    \/ Tick

SpecPool == InitPool /\ [][NextPool]_vars

-----------------------------------------------------------------------------
(* The pure functions called alone: probe holds the function, its argument *)
(* and, once called, its result                                            *)

Probe(fn, arg) == [fn |-> fn, arg |-> arg, done |-> FALSE, out |-> <<>>]

QueueTypeValues ==
    {JAbsent, JNull, JStr(""), JStr("XL"), JInt(1), JArr}
        \cup {JStr(c) : c \in Categories}

CountValues == {JAbsent, JNull, JStr("abc"), JArr} \cup {JInt(n) : n \in -1..MaxCount}

FallbackValues == {JAbsent, JInt(0), JInt(51), JInt(201), JStr("abc")}

ProbeMessages ==
    {Msg(qt, ac, na, JAbsent) :
        qt \in QueueTypeValues, ac \in CountValues, na \in FallbackValues}

Documents ==
    {NoneDoc, ArrayDoc, ObjectDoc(EmptyMsg), ObjectDoc(Message25),
     ObjectDoc(Message75), ObjectDoc(MessageLarge150), ObjectDoc(MessageBadCount)}

ProbeRecords ==
    {Record(Value(kind, padding, alphabet, Bytes(utf8, Text(json, doc)))) :
        kind \in {"absent", "empty", "str"}, padding \in BOOLEAN,
        alphabet \in BOOLEAN, utf8 \in BOOLEAN, json \in BOOLEAN,
        doc \in Documents}

\* longest list of messages grouped alone
MaxList == 3

\* what lambda_handler can pass to route_messages_by_queue_type: the truthy
\* documents
ProbeLists ==
    UNION {[1..n -> {d \in Documents : TruthyDoc(d)}] : n \in 0..MaxList}

\* longest list of one category split into batches alone
MaxChunk == 31

\* a category's list of n messages, told apart by their productId
CategoryList(n) == [i \in 1..n |-> Msg(JStr("SMALL"), JAbsent, JAbsent, JInt(i))]

ProbeCategoryLists == {CategoryList(n) : n \in 0..MaxChunk}

InitFunctions ==
    /\ event = Event(TRUE, <<>>)
    /\ pc = "probe"
    /\ \/ \E m \in ProbeMessages : probe = Probe("determine_queue_type", m)
       \/ \E r \in ProbeRecords : probe = Probe("parse_kafka_message", r)
       \/ \E l \in ProbeLists : probe = Probe("route_messages_by_queue_type", l)
       \/ \E l \in ProbeCategoryLists : probe = Probe("chunks", l)
    /\ Idle

Call(fn, out) ==
    /\ pc = "probe"
    /\ probe.fn = fn
    /\ ~probe.done
    /\ probe' = [probe EXCEPT !.done = TRUE, !.out = out]
    /\ UNCHANGED <<event, pc, parsed_messages, grouped_messages, futures, awaiting,
                   awaitStart, all_successful, now, metrics, response>>

CallDetermineQueueType ==
    Call("determine_queue_type", determine_queue_type(probe.arg))

CallParseKafkaMessage ==
    Call("parse_kafka_message", parse_kafka_message(probe.arg))

CallRouteMessages ==
    Call("route_messages_by_queue_type", route_messages_by_queue_type(probe.arg))

\* lines 227-228: the batches of one category's list
CallChunks ==
    Call("chunks", Chunks(probe.arg, 0))

NextFunctions ==
    \/ CallDetermineQueueType
    \/ CallParseKafkaMessage
    \/ CallRouteMessages
    \/ CallChunks

SpecFunctions == InitFunctions /\ [][NextFunctions]_vars

-----------------------------------------------------------------------------
(* Properties                                                              *)

Classified == probe.fn = "determine_queue_type" /\ probe.done
Decoded == probe.fn = "parse_kafka_message" /\ probe.done
Grouped == probe.fn = "route_messages_by_queue_type" /\ probe.done

KnownQueueType(message) ==
    message.queueType.t = "str" /\ message.queueType.s \in Categories

NonNegativeCount(message) ==
    message.applicationCount.t = "int" /\ message.applicationCount.i >= 0

\* C1: for every message without a known queueType and with applicationCount
\* a non-negative integer n, determine_queue_type returns SMALL iff n <= 50,
\* MEDIUM iff 51 <= n <= 200 and LARGE iff n > 200.
C1_ThresholdLadder ==
    (Classified /\ ~KnownQueueType(probe.arg) /\ NonNegativeCount(probe.arg)) =>
        LET n == probe.arg.applicationCount.i
        IN  /\ probe.out = "SMALL" <=> n <= 50
            /\ probe.out = "MEDIUM" <=> (51 <= n /\ n <= 200)
            /\ probe.out = "LARGE" <=> n > 200

\* C2: a message whose queueType is one of SMALL, MEDIUM, LARGE is classified
\* as that queueType, whatever its applicationCount and NumberOfApplications.
C2_KnownQueueTypeReturned ==
    (Classified /\ KnownQueueType(probe.arg)) => probe.out = probe.arg.queueType.s

\* a known queueType was returned although the count lies in another tier,
\* or is not a number at all
C2_Witness ==
    /\ Classified
    /\ probe.arg.queueType = JStr("SMALL")
    /\ probe.arg.applicationCount \in {JInt(201), JStr("abc")}
    /\ probe.out = "SMALL"

\* the invocation went through the dispatch phase and returned
Dispatched == pc = "done" /\ "queueDistribution" \in DOMAIN response

\* the destination accepted the batch of future i and the wait for its
\* result did not time out
TaskSucceeded(i) ==
    futures[i].behaviour.resp = "ok" /\ futures[i].awaited # "timeout"

\* C3: an invocation that went through the dispatch phase returns status 200
\* if and only if every submitted send task succeeded (500 if any reported
\* failed items, raised or timed out), and processedMessages is the number of
\* classified messages.
C3_StatusIsConjunction ==
    Dispatched =>
        /\ response.statusCode = 200 <=> \A i \in 1..Len(futures) : TaskSucceeded(i)
        /\ response.statusCode \in {200, 500}
        /\ response.processedMessages = metrics["MessagesProcessed"]

\* a failed first task followed by a successful second one: status 500
C3_Witness ==
    /\ Dispatched
    /\ Len(futures) >= 2
    /\ ~TaskSucceeded(1)
    /\ TaskSucceeded(Len(futures))
    /\ response.statusCode = 500
    /\ response.processedMessages = 2

\* C4: when no record decodes to a message the handler returns status 200,
\* processedMessages 0 and queueDistribution {small: 0, medium: 0, large: 0},
\* and no send task is submitted.
C4_EmptyResponseComplete ==
    (pc = "done" /\ event.valid /\ parsed_messages = <<>>) =>
        /\ futures = <<>>
        /\ response.statusCode = 200
        /\ response.processedMessages = 0
        /\ "queueDistribution" \in DOMAIN response
        /\ response.queueDistribution = [small |-> 0, medium |-> 0, large |-> 0]

\* an exception escaped a phase of lambda_handler: the event is None, or the
\* grouping loop raised
Faulted ==
    \/ ~event.valid
    \/ pc # "start" /\ route_messages_by_queue_type(parsed_messages).raised # ""

\* C5: an exception that escapes a phase of lambda_handler is caught at the
\* top level and answered with status 500 and the error; no invocation ends
\* in an unhandled fault.
C5_FaultsAnswered ==
    /\ pc # "crashed"
    /\ (pc \notin {"start", "parsed"} /\ Faulted) =>
           /\ pc = "done"
           /\ DOMAIN response = {"statusCode", "error"}
           /\ response.statusCode = 500
           /\ response.error \in {"AttributeError", "TypeError"}

\* a message with a non-numeric count made the grouping raise, after a first
\* message had been grouped
C5_Witness ==
    /\ pc = "done"
    /\ event.valid
    /\ Len(parsed_messages) = 2
    /\ metrics["MessagesProcessed"] = 1
    /\ response = [statusCode |-> 500, error |-> "TypeError"]

\* the failure cases of decoding a record's value
Undecodable(value) ==
    \/ value.kind # "str"
    \/ ~(value.padding /\ value.alphabet)
    \/ ~value.bytes.text.json

\* C6: decoding a record whose value is absent or empty, is not valid base64,
\* or is not valid JSON yields no message and exactly one error observation.
C6_OneErrorPerFailure ==
    (Decoded /\ Undecodable(probe.arg.value)) =>
        probe.out.message = NoneDoc /\ probe.out.errors = 1

\* value is valid base64 of UTF-8 text of a JSON object
ValidObject(record) ==
    /\ record.value.kind = "str"
    /\ record.value.padding /\ record.value.alphabet
    /\ record.value.bytes.utf8
    /\ record.value.bytes.text.json
    /\ record.value.bytes.text.doc.form = "object"

ValidObjects(records) ==
    Cardinality({i \in 1..Len(records) : ValidObject(records[i])})

\* C7: no record's content makes the invocation a failure response, and every
\* record whose value is valid base64 of UTF-8 JSON object text is counted in
\* processedMessages.
C7_EveryValidRecordCounted ==
    (pc = "done" /\ event.valid) =>
        /\ "error" \notin DOMAIN response
        /\ response.processedMessages = ValidObjects(Flatten(event.partitions))

RECURSIVE SumLen(_, _)
SumLen(f, S) ==
    IF S = {} THEN 0
    ELSE LET x == CHOOSE y \in S : TRUE IN Len(f[x]) + SumLen(f, S \ {x})

\* C8: for every list of n decoded messages route_messages_by_queue_type
\* returns a mapping with exactly the keys SMALL, MEDIUM, LARGE whose lists
\* hold n messages in all.
C8_GroupsPartitionMessages ==
    Grouped =>
        /\ probe.out.raised = ""
        /\ DOMAIN probe.out.groups = {"SMALL", "MEDIUM", "LARGE"}
        /\ SumLen(probe.out.groups, DOMAIN probe.out.groups) = Len(probe.arg)

\* the send of future i takes more than the timeout of result()
SendExceedsTimeout(i) ==
    futures[i].st # "queued"
        /\ (futures[i].behaviour.hangs \/ futures[i].behaviour.dur > RESULT_TIMEOUT)

\* C9: a send task whose send takes more than 30 time units is counted as
\* failed, so that the overall result is failure.
C9_SlowSendFails ==
    \A i \in 1..Len(futures) :
        SendExceedsTimeout(i) =>
            /\ futures[i].awaited # "True"
            /\ Dispatched => response.statusCode = 500

\* C10: at most MAX_WORKERS (10) send tasks are in flight at any time; the
\* tasks beyond that stay queued.
C10_AtMostTenInFlight ==
    /\ Cardinality(Running) <= 10
    /\ \A i \in 1..Len(futures) : futures[i].st \in {"queued", "running", "finished"}
    /\ Cardinality(Running) + Cardinality(Queued) + Cardinality(Finished) = Len(futures)

\* ten sends in flight while submitted tasks wait in the queue
C10_Witness ==
    /\ Cardinality(Running) = 10
    /\ Cardinality(Queued) >= 2
    /\ Finished = {}

\* the send of future i did not succeed, or the wait for it timed out
TaskFailed(i) ==
    \/ futures[i].st = "finished" /\ ~futures[i].result
    \/ futures[i].awaited \in {"False", "timeout"}

\* C11: every submitted batch has its send attempted exactly once per
\* invocation, whatever happens to the other tasks: no batch is sent twice,
\* none is left unsent when the invocation returns, and each send is made
\* with the batch and the queue URL that were submitted.
C11_EachBatchSentOnce ==
    \A i \in 1..Len(futures) :
        /\ futures[i].sends <= 1
        /\ futures[i].st = "queued" <=> futures[i].sends = 0
        /\ futures[i].sends = 1 => Len(futures[i].entries) = futures[i].batch_size
        /\ pc = "done" => futures[i].sends = 1 /\ futures[i].st = "finished"

\* the first task failed (failed items, exception or timeout) and the second
\* batch was sent once all the same
C11_Witness ==
    /\ Dispatched
    /\ Len(futures) = 2
    /\ TaskFailed(1)
    /\ futures[1].sends = 1
    /\ futures[2].sends = 1
    /\ futures[2].awaited = "True"

\* C12: every invocation eventually returns a response, also when the
\* remote call of a send never finishes: the unfinished send is recorded as
\* timed out and the handler returns.
C12_EventuallyReturns == <>(pc = "done")

Chunked == probe.fn = "chunks" /\ probe.done

RECURSIVE Concat(_)
Concat(batches) ==
    IF batches = <<>> THEN <<>> ELSE Head(batches) \o Concat(Tail(batches))

\* C13: splitting a category's list of n messages produces ceil(n/10)
\* batches (none for n = 0), each of 1 to 10 messages, and the batches
\* concatenated in order are the original list.
C13_ChunksCoverList ==
    Chunked =>
        LET n == Len(probe.arg)
        IN  /\ Len(probe.out) = (n + 9) \div 10
            /\ \A k \in 1..Len(probe.out) :
                   1 <= Len(probe.out[k]) /\ Len(probe.out[k]) <= 10
            /\ Concat(probe.out) = probe.arg

\* 25 messages: batches of 10, 10 and 5
C13_Witness ==
    /\ Chunked
    /\ Len(probe.arg) = 25
    /\ Len(probe.out) = 3
    /\ Len(probe.out[1]) = 10
    /\ Len(probe.out[3]) = 5

\* the wait for future i ended: its task completed within the wait, or the
\* wait timed out
Accounted(i) ==
    \/ futures[i].awaited \in {"True", "False"} /\ futures[i].st = "finished"
    \/ futures[i].awaited = "timeout"

\* C14: when send_batches_concurrently returns, every task it submitted has
\* completed (success, failed items or exception) or has been recorded as
\* timed out, and the flag it returns accounts for each of them.
C14_NoEarlyReturn ==
    Dispatched =>
        /\ \A i \in 1..Len(futures) : Accounted(i)
        /\ all_successful <=> \A i \in 1..Len(futures) : futures[i].awaited = "True"
        /\ Len(futures) = Len(Submissions(grouped_messages, 1))

\* the first task failed, and the handler returned only after the second
\* task, which took longer, was waited for as well
C14_Witness ==
    /\ Dispatched
    /\ Len(futures) = 2
    /\ futures[1].awaited = "False"
    /\ futures[2].awaited \in {"True", "timeout"}
    /\ futures[2].behaviour.dur > futures[1].behaviour.dur

\* the error observations task i gave rise to: in send_to_sqs_batch
\* (sqs_batch_failure, sqs_send_error) and in the waiting loop
\* (concurrent_send_error)
ErrorObservations(i) ==
    (IF futures[i].st = "finished" /\ ~futures[i].result THEN 1 ELSE 0)
        + (IF futures[i].awaited = "timeout" THEN 1 ELSE 0)

\* the batch-size observations task i gave rise to
SizeObservations(i) == IF futures[i].awaited = "True" THEN 1 ELSE 0

SendErrors ==
    metrics["sqs_batch_failure"] + metrics["sqs_send_error"]
        + metrics["concurrent_send_error"]

\* C15: over a dispatch phase each send task produces exactly one
\* observation: a batch-size observation if it succeeded, one error
\* observation if it failed, raised or timed out; never two.
C15_OneObservationPerTask ==
    Dispatched =>
        /\ \A i \in 1..Len(futures) : ErrorObservations(i) + SizeObservations(i) = 1
        /\ SendErrors + metrics["BatchSize"] = Len(futures)

\* the count the claims select: applicationCount if the key is present,
\* otherwise NumberOfApplications if that key is present, otherwise 0
SelectedCount(message) ==
    IF message.applicationCount.t # "absent" THEN message.applicationCount
    ELSE IF message.NumberOfApplications.t # "absent"
        THEN message.NumberOfApplications
    ELSE JInt(0)

\* C16: determine_queue_type returns SMALL, MEDIUM or LARGE for every
\* decoded message; a count that is present but not a number (string, null,
\* array) is taken as 0, so that the message is classified SMALL.
C16_ClassificationNeverFails ==
    Classified =>
        /\ probe.out \in Categories
        /\ (~KnownQueueType(probe.arg) /\ SelectedCount(probe.arg).t # "int") =>
               probe.out = "SMALL"

\* C17: for a message whose queueType is absent or no known category the
\* threshold rule is applied to applicationCount if present, otherwise to
\* NumberOfApplications if present, otherwise to 0 (SMALL); the unknown
\* queueType is never the result.
C17_FallbackOrder ==
    (Classified /\ ~KnownQueueType(probe.arg)
            /\ SelectedCount(probe.arg).t = "int") =>
        /\ probe.out = Threshold(SelectedCount(probe.arg).i)
        /\ probe.out \in Categories

\* send_message_batch was called for future i
Sent(i) == futures[i].sends >= 1

\* C18: every send_message_batch call carries messages of one category c
\* only, each with queueType c as written by the grouper, goes to the queue
\* URL mapped to c, and gives every entry the queueType attribute c, never
\* 'UNKNOWN'.
C18_BatchesHomogeneous ==
    \A i \in 1..Len(futures) :
        Sent(i) =>
            LET c == futures[i].queue_type
            IN  /\ c \in Categories
                /\ futures[i].queue_url = QUEUE_MAPPINGS[c]
                /\ Len(futures[i].entries) = Len(futures[i].batch)
                /\ \A k \in 1..Len(futures[i].batch) :
                       /\ futures[i].batch[k].queueType = JStr(c)
                       /\ futures[i].entries[k].queueType = c
                       /\ futures[i].entries[k].queueType # "UNKNOWN"
                       /\ futures[i].entries[k].MessageBody.doc.obj.queueType = JStr(c)

\* a message that came with the unknown queueType XL and one that came
\* without any were sent to the MEDIUM and the SMALL queue, tagged as such
C18_Witness ==
    /\ Len(futures) = 2
    /\ Sent(1) /\ Sent(2)
    /\ Flatten(event.partitions) =
           <<Record(Encode(ObjectDoc(MessageUnknownType))),
             Record(Encode(ObjectDoc(Message25)))>>
    /\ futures[1].queue_url = "url-small"
    /\ futures[1].entries[1].queueType = "SMALL"
    /\ futures[2].queue_url = "url-medium"
    /\ futures[2].entries[1].queueType = "MEDIUM"

\* C19: in every response that carries queueDistribution, small + medium +
\* large equals processedMessages: every decoded message is counted in
\* exactly one category.
C19_DistributionSumsToProcessed ==
    ("queueDistribution" \in DOMAIN response) =>
        /\ response.queueDistribution.small + response.queueDistribution.medium
               + response.queueDistribution.large = response.processedMessages
        /\ response.processedMessages = Len(parsed_messages)
        /\ \A k \in 1..Len(parsed_messages) :
               /\ parsed_messages[k].form = "object"
               /\ parsed_messages[k].obj.queueType.s \in Categories

\* a batch-failure response for two messages of different categories, one
\* of which came with an unknown queueType
C19_Witness ==
    /\ "queueDistribution" \in DOMAIN response
    /\ response.statusCode = 500
    /\ response.processedMessages = 2
    /\ response.queueDistribution = [small |-> 1, medium |-> 1, large |-> 0]
    /\ \E k \in 1..2 :
           parsed_messages[k].obj = [MessageUnknownType EXCEPT !.queueType = JStr("MEDIUM")]

\* the submission loop has ended
AllSubmitted == pc = "await" \/ Dispatched

RECURSIVE SumBatchSizes(_)
SumBatchSizes(n) ==
    IF n = 0 THEN 0 ELSE futures[n].batch_size + SumBatchSizes(n - 1)

\* the batches submitted for category c among the first n futures, in
\* submission order, concatenated
RECURSIVE SubmittedOf(_, _)
SubmittedOf(c, n) ==
    IF n = 0 THEN <<>>
    ELSE SubmittedOf(c, n - 1)
             \o (IF futures[n].queue_type = c THEN futures[n].batch ELSE <<>>)

\* C20: in an invocation that reaches the dispatch phase every grouped
\* message is in exactly one submitted batch: the batches submitted for a
\* category are its list, and the batch sizes sum to processedMessages.
C20_BatchesCoverMessages ==
    AllSubmitted =>
        /\ \A c \in Categories : SubmittedOf(c, Len(futures)) = grouped_messages[c]
        /\ \A i \in 1..Len(futures) : futures[i].batch_size = Len(futures[i].batch)
        /\ SumBatchSizes(Len(futures)) = Len(parsed_messages)
        /\ Dispatched => SumBatchSizes(Len(futures)) = response.processedMessages

\* PoolSize + 2 messages of three categories went out in 13 batches, the
\* SMALL ones in full batches and a shorter last one
C20_Witness ==
    /\ Dispatched
    /\ Len(futures) = 13
    /\ response.processedMessages = PoolSize + 2
    /\ futures[1].batch_size = 10
    /\ futures[11].batch_size < 10
    /\ futures[13].queue_type = "LARGE"

====
